---- MODULE Spec2Model ----
\* A model of the connection registry of connection/connection.go:
\* MySqlConnection with its two maps, its mutex, and the operations
\* InitDataSourceConnection, GetDB, reconnect, CloseConnection and
\* CloseAllConnections, run by concurrent goroutines against an external
\* pooled-client library whose open / DB() / Ping() / Close() calls may fail.
EXTENDS Integers, FiniteSets, Sequences, TLC

\* ---------------------------------------------------------------- bounds
NumThreads == 2          \* goroutines calling the registry
MaxHandles == 3          \* handles gorm.Open can hand out in one run
MaxCalls == 4            \* calls made on the registry in one run

Threads == 1..NumThreads
Handles == 1..MaxHandles
Names == {"a", "b"}
ZeroConfig == "DBConfig{}"   \* the zero DBConfig, read for a missing key
Configs == {ZeroConfig, "c1"}

\* ---------------------------------------------------------------- values
NoHandle == 0            \* a nil *gorm.DB, and the value of a missing map key
NoThread == 0            \* the zero sync.Mutex: unlocked
NoConfig == "none"       \* a name that is no key of configs
NoName == "none"         \* no name
NoOp == "none"           \* no call
NoInstance == 0          \* a nil *MySqlConnection

ErrNil == "nil"
ErrNotFound == "does not exist"                    \* lines 228, 298
ErrOpen == "failed to initialize"                  \* line 162
ErrPool == "failed to retrieve database handle"    \* lines 168, 304
ErrPing == "failed to ping"                        \* line 176
ErrNoConfig == "no configuration found"            \* line 237
ErrClose == "error closing"                        \* line 309
ErrRemove == "failed to remove connection"         \* line 252
ErrReconnect == "failed to reconnect"              \* line 258

VARIABLES
    connections,   \* f.connections: name -> handle, NoHandle for a missing key
    configs,       \* f.configs: name -> config, NoConfig for a missing key
    mutex,         \* f.mutex: the thread holding it, or NoThread
    hstate,        \* the pooled client behind each handle
    pinged,        \* the handles on which a Ping() has succeeded
    storedAs,      \* the name under which a handle was stored in connections
    pc,            \* where each goroutine is in its call
    op,            \* the exported method each goroutine called
    name,          \* its name argument
    config,        \* its config: the argument of Init, the snapshot of GetDB
    db,            \* GetDB's local db
    exists,        \* the local exists of GetDB or CloseConnection
    configExists,  \* GetDB's local configExists
    cdb,           \* CloseConnection's local db
    newdb,         \* InitDataSourceConnection's local db
    ret,           \* the handle a call returns
    err,           \* the error the running function returns
    snap,          \* the maps as they were when the goroutine took the mutex
    calls,         \* the number of calls made so far
    prev,          \* the last call that returned (sequential runs only)
    drained,       \* CloseAllConnections has returned, no Init running or called since
    once,          \* the sync.Once of GetMySqlConnection
    instance,      \* the package variable instance: an object, or NoInstance
    objects,       \* the MySqlConnection objects allocated so far
    got            \* the instance GetMySqlConnection returned to each goroutine

maps == <<connections, configs>>
hvars == <<hstate, pinged, storedAs>>
single == <<once, instance, objects, got>>
locals == <<op, name, config, db, exists, configExists, cdb, newdb, ret, err>>
vars == <<connections, configs, mutex, hstate, pinged, storedAs, pc, op, name,
          config, db, exists, configExists, cdb, newdb, ret, err, snap, calls, prev,
          drained, once, instance, objects, got>>

EmptyConnections == [n \in Names |-> NoHandle]
EmptyConfigs == [n \in Names |-> NoConfig]
NoSnap == [c |-> EmptyConnections, g |-> EmptyConfigs]
NoCall == [op |-> NoOp, name |-> NoName, config |-> NoConfig, ret |-> NoHandle,
           err |-> ErrNil, db |-> NoHandle, cdb |-> NoHandle, newdb |-> NoHandle]

\* A MySqlConnection whose maps have both been made.
Constructed == [connections |-> TRUE, configs |-> TRUE]

Keys(m, none) == {n \in Names : m[n] # none}

\* The handle gorm.Open returns next; MaxHandles + 1 when the run has no more.
NextHandle ==
    IF \E h \in Handles : hstate[h] = "unopened"
    THEN CHOOSE h \in Handles :
            /\ hstate[h] = "unopened"
            /\ \A g \in Handles : hstate[g] = "unopened" => h <= g
    ELSE MaxHandles + 1

\* sqlDB.Ping() on the pooled client of h
PingOk(h) == hstate[h] = "live"

\* No call has been made yet.
Idle ==
    /\ connections = EmptyConnections
    /\ configs = EmptyConfigs
    /\ mutex = NoThread
    /\ hstate = [h \in Handles |-> "unopened"]
    /\ pinged = {}
    /\ storedAs = [h \in Handles |-> NoName]
    /\ pc = [t \in Threads |-> "idle"]
    /\ op = [t \in Threads |-> NoOp]
    /\ name = [t \in Threads |-> NoName]
    /\ config = [t \in Threads |-> NoConfig]
    /\ db = [t \in Threads |-> NoHandle]
    /\ exists = [t \in Threads |-> FALSE]
    /\ configExists = [t \in Threads |-> FALSE]
    /\ cdb = [t \in Threads |-> NoHandle]
    /\ newdb = [t \in Threads |-> NoHandle]
    /\ ret = [t \in Threads |-> NoHandle]
    /\ err = [t \in Threads |-> ErrNil]
    /\ snap = [t \in Threads |-> NoSnap]
    /\ calls = 0
    /\ prev = NoCall
    /\ drained = FALSE
    /\ got = [t \in Threads |-> NoInstance]

\* The registry as the first GetMySqlConnection leaves it.
Init ==
    /\ Idle
    /\ once = "done"
    /\ instance = 1
    /\ objects = <<Constructed>>

\* The program before the first GetMySqlConnection.
InitOnce ==
    /\ Idle
    /\ once = "fresh"
    /\ instance = NoInstance
    /\ objects = <<>>

\* ------------------------------------------------------------ the mutex
\* (mutant) Lock does not wait for the mutex to be free.
LockNoWait(t) ==
    /\ mutex' = t
    /\ snap' = [snap EXCEPT ![t] = [c |-> connections, g |-> configs]]

Lock(t) ==
    /\ mutex = NoThread
    /\ mutex' = t
    /\ snap' = [snap EXCEPT ![t] = [c |-> connections, g |-> configs]]

Unlock(t) ==
    /\ mutex = t
    /\ mutex' = NoThread
    /\ snap' = [snap EXCEPT ![t] = NoSnap]

Goto(t, l) == pc' = [pc EXCEPT ![t] = l]

\* ------------------------------------------------------------ the callers
Call(t, o, n, c) ==
    /\ pc[t] = "idle"
    /\ calls < MaxCalls
    /\ calls' = calls + 1
    /\ op' = [op EXCEPT ![t] = o]
    /\ name' = [name EXCEPT ![t] = n]
    /\ config' = [config EXCEPT ![t] = c]
    /\ drained' = (drained /\ o # "Init")
    /\ UNCHANGED <<single, maps, mutex, hvars, db, exists, configExists, cdb,
                   newdb, ret, err, snap, prev>>

CallInit(t) ==
    \E n \in Names, c \in Configs : Call(t, "Init", n, c) /\ Goto(t, "init_lock")

CallGetDB(t) ==
    \E n \in Names : Call(t, "GetDB", n, NoConfig) /\ Goto(t, "get_lock")

CallClose(t) ==
    \E n \in Names : Call(t, "Close", n, NoConfig) /\ Goto(t, "close_lock")

CallCloseAll(t) ==
    Call(t, "CloseAll", NoName, NoConfig) /\ Goto(t, "closeall_lock")

CallPrint(t) ==
    Call(t, "Print", NoName, NoConfig) /\ Goto(t, "print_lock")

CallGetDbConfig(t) ==
    \E n \in Names : Call(t, "GetDbConfig", n, NoConfig) /\ Goto(t, "cfg_lock")

\* The call has returned to its caller, which drops the results, except for
\* the instance it got from GetMySqlConnection.
Forget(t) ==
    /\ pc[t] = "done"
    /\ Goto(t, "idle")
    /\ op' = [op EXCEPT ![t] = NoOp]
    /\ name' = [name EXCEPT ![t] = NoName]
    /\ config' = [config EXCEPT ![t] = NoConfig]
    /\ db' = [db EXCEPT ![t] = NoHandle]
    /\ exists' = [exists EXCEPT ![t] = FALSE]
    /\ configExists' = [configExists EXCEPT ![t] = FALSE]
    /\ cdb' = [cdb EXCEPT ![t] = NoHandle]
    /\ newdb' = [newdb EXCEPT ![t] = NoHandle]
    /\ ret' = [ret EXCEPT ![t] = NoHandle]
    /\ err' = [err EXCEPT ![t] = ErrNil]
    /\ UNCHANGED <<single, drained, maps, mutex, hvars, snap, calls>>

Return(t) == Forget(t) /\ UNCHANGED prev

\* ---------------------------------------------------- GetMySqlConnection
CallGetMySqlConnection(t) ==
    Call(t, "GetMySqlConnection", NoName, NoConfig) /\ Goto(t, "once_do")

\* (mutant) a call made while the function of once.Do runs does not wait.
OnceDoNoWait(t) ==
    /\ pc[t] = "once_do"
    /\ IF once = "fresh"
       THEN once' = "running" /\ Goto(t, "once_new")
       ELSE UNCHANGED once /\ Goto(t, "once_return")
    /\ UNCHANGED <<instance, objects, got, drained, maps, mutex, hvars, locals,
                   snap, calls, prev>>

\* once.Do: the first call runs the function, a call made while it runs
\* waits for it to return, and a call made after that returns at once.
OnceDo(t) ==
    /\ pc[t] = "once_do"
    /\ once # "running"
    /\ IF once = "fresh"
       THEN once' = "running" /\ Goto(t, "once_new")
       ELSE UNCHANGED once /\ Goto(t, "once_return")
    /\ UNCHANGED <<instance, objects, got, drained, maps, mutex, hvars, locals,
                   snap, calls, prev>>

\* The MySqlConnection is allocated, its maps still nil.
OnceNew(t) ==
    /\ pc[t] = "once_new"
    /\ objects' = Append(objects, [connections |-> FALSE, configs |-> FALSE])
    /\ Goto(t, "once_build")
    /\ UNCHANGED <<once, instance, got, drained, maps, mutex, hvars, locals,
                   snap, calls, prev>>

\* The two make calls and the store to instance, which other goroutines may
\* see in any order.
OnceMakeConnections(t) ==
    /\ pc[t] = "once_build"
    /\ ~objects[Len(objects)].connections
    /\ objects' = [objects EXCEPT ![Len(objects)].connections = TRUE]
    /\ UNCHANGED <<once, instance, got, drained, maps, mutex, hvars, pc, locals,
                   snap, calls, prev>>

OnceMakeConfigs(t) ==
    /\ pc[t] = "once_build"
    /\ ~objects[Len(objects)].configs
    /\ objects' = [objects EXCEPT ![Len(objects)].configs = TRUE]
    /\ UNCHANGED <<once, instance, got, drained, maps, mutex, hvars, pc, locals,
                   snap, calls, prev>>

OnceStore(t) ==
    /\ pc[t] = "once_build"
    /\ instance # Len(objects)
    /\ instance' = Len(objects)
    /\ UNCHANGED <<once, objects, got, drained, maps, mutex, hvars, pc, locals,
                   snap, calls, prev>>

\* The function has returned: once is done.
OnceDone(t) ==
    /\ pc[t] = "once_build"
    /\ objects[Len(objects)] = Constructed
    /\ instance = Len(objects)
    /\ once' = "done"
    /\ Goto(t, "once_return")
    /\ UNCHANGED <<instance, objects, got, drained, maps, mutex, hvars, locals,
                   snap, calls, prev>>

\* return instance
OnceReturn(t) ==
    /\ pc[t] = "once_return"
    /\ got' = [got EXCEPT ![t] = instance]
    /\ Goto(t, "done")
    /\ UNCHANGED <<once, instance, objects, drained, maps, mutex, hvars, locals,
                   snap, calls, prev>>

\* ------------------------------------------- InitDataSourceConnection
\* (mutant) Init of a name that is a key replaces its config.
InitLockOverwrites(t) ==
    /\ pc[t] = "init_lock"
    /\ Lock(t)
    /\ IF connections[name[t]] # NoHandle
       THEN /\ err' = [err EXCEPT ![t] = ErrNil]
            /\ configs' = [configs EXCEPT ![name[t]] = config[t]]
            /\ Goto(t, "init_unlock")
       ELSE /\ Goto(t, "init_open")
            /\ UNCHANGED <<err, configs>>
    /\ UNCHANGED <<single, drained, connections, hvars, op, name, config, db,
                   exists, configExists, cdb, newdb, ret, calls, prev>>

\* (mutant) Init opens a handle without checking that the name is no key.
InitLockNoCheck(t) ==
    /\ pc[t] = "init_lock"
    /\ Lock(t)
    /\ Goto(t, "init_open")
    /\ UNCHANGED <<single, drained, maps, hvars, locals, calls, prev>>

\* Lock, and the check that the name is no key yet.
InitLock(t) ==
    /\ pc[t] = "init_lock"
    /\ Lock(t)
    /\ IF connections[name[t]] # NoHandle
       THEN /\ err' = [err EXCEPT ![t] = ErrNil]
            /\ Goto(t, "init_unlock")
       ELSE /\ Goto(t, "init_open")
            /\ UNCHANGED err
    /\ UNCHANGED <<single, drained, maps, hvars, op, name, config, db, exists,
                   configExists, cdb, newdb, ret, calls, prev>>

\* gorm.Open fails.
InitOpenFails(t) ==
    /\ pc[t] = "init_open"
    /\ err' = [err EXCEPT ![t] = ErrOpen]
    /\ Goto(t, "init_unlock")
    /\ UNCHANGED <<single, drained, maps, mutex, hvars, op, name, config, db,
                   exists, configExists, cdb, newdb, ret, snap, calls, prev>>

\* (mutant) Init stores the handle as soon as it is opened.
InitOpenStoresEarly(t) ==
    /\ pc[t] = "init_open"
    /\ NextHandle \in Handles
    /\ newdb' = [newdb EXCEPT ![t] = NextHandle]
    /\ \E s \in {"live", "broken"} : hstate' = [hstate EXCEPT ![NextHandle] = s]
    /\ connections' = [connections EXCEPT ![name[t]] = NextHandle]
    /\ Goto(t, "init_ping")
    /\ UNCHANGED <<single, drained, configs, mutex, pinged, storedAs, op, name,
                   config, db, exists, configExists, cdb, ret, err, snap, calls,
                   prev>>

\* gorm.Open returns a new handle, whose connection may already be lost.
InitOpen(t) ==
    /\ pc[t] = "init_open"
    /\ NextHandle \in Handles
    /\ newdb' = [newdb EXCEPT ![t] = NextHandle]
    /\ \E s \in {"live", "broken"} : hstate' = [hstate EXCEPT ![NextHandle] = s]
    /\ Goto(t, "init_ping")
    /\ UNCHANGED <<single, drained, maps, mutex, pinged, storedAs, op, name,
                   config, db, exists, configExists, cdb, ret, err, snap, calls,
                   prev>>

\* db.DB() fails.
InitPoolFails(t) ==
    /\ pc[t] = "init_ping"
    /\ err' = [err EXCEPT ![t] = ErrPool]
    /\ Goto(t, "init_unlock")
    /\ UNCHANGED <<single, drained, maps, mutex, hvars, op, name, config, db,
                   exists, configExists, cdb, newdb, ret, snap, calls, prev>>

\* db.DB() succeeds, the pool is sized, and the handle is pinged.
InitPing(t) ==
    /\ pc[t] = "init_ping"
    /\ IF PingOk(newdb[t])
       THEN /\ pinged' = pinged \cup {newdb[t]}
            /\ Goto(t, "init_store")
            /\ UNCHANGED err
       ELSE /\ err' = [err EXCEPT ![t] = ErrPing]
            /\ Goto(t, "init_unlock")
            /\ UNCHANGED pinged
    /\ UNCHANGED <<single, drained, maps, mutex, hstate, storedAs, op, name,
                   config, db, exists, configExists, cdb, newdb, ret, snap,
                   calls, prev>>

InitStore(t) ==
    /\ pc[t] = "init_store"
    /\ connections' = [connections EXCEPT ![name[t]] = newdb[t]]
    /\ storedAs' = [storedAs EXCEPT ![newdb[t]] = name[t]]
    /\ Goto(t, "init_store_config")
    /\ UNCHANGED <<single, drained, configs, mutex, hstate, pinged, locals, snap,
                   calls, prev>>

\* (mutant) Init stores the zero DBConfig instead of its argument.
InitStoreConfigZero(t) ==
    /\ pc[t] = "init_store_config"
    /\ configs' = [configs EXCEPT ![name[t]] = ZeroConfig]
    /\ err' = [err EXCEPT ![t] = ErrNil]
    /\ Goto(t, "init_unlock")
    /\ UNCHANGED <<single, drained, connections, mutex, hvars, op, name, config,
                   db, exists, configExists, cdb, newdb, ret, snap, calls, prev>>

InitStoreConfig(t) ==
    /\ pc[t] = "init_store_config"
    /\ configs' = [configs EXCEPT ![name[t]] = config[t]]
    /\ err' = [err EXCEPT ![t] = ErrNil]
    /\ Goto(t, "init_unlock")
    /\ UNCHANGED <<single, drained, connections, mutex, hvars, op, name, config,
                   db, exists, configExists, cdb, newdb, ret, snap, calls, prev>>

\* (mutant) reconnect ignores the error of the re-initialization.
InitUnlockSwallows(t) ==
    /\ pc[t] = "init_unlock"
    /\ Unlock(t)
    /\ IF op[t] = "Init"
       THEN Goto(t, "done") /\ UNCHANGED err
       ELSE Goto(t, "rec_lock") /\ UNCHANGED err
    /\ UNCHANGED <<single, drained, maps, hvars, op, name, config, db, exists,
                   configExists, cdb, newdb, ret, calls, prev>>

\* The deferred Unlock; the call returns to its caller, or to reconnect.
InitUnlock(t) ==
    /\ pc[t] = "init_unlock"
    /\ Unlock(t)
    /\ IF op[t] = "Init"
       THEN Goto(t, "done") /\ UNCHANGED err
       ELSE IF err[t] # ErrNil
            THEN Goto(t, "done") /\ err' = [err EXCEPT ![t] = ErrReconnect]
            ELSE Goto(t, "rec_lock") /\ UNCHANGED err
    /\ UNCHANGED <<single, drained, maps, hvars, op, name, config, db, exists,
                   configExists, cdb, newdb, ret, calls, prev>>

\* ---------------------------------------------------------------- GetDB
GetLock(t) ==
    /\ pc[t] = "get_lock"
    /\ Lock(t)
    /\ Goto(t, "get_read")
    /\ UNCHANGED <<single, drained, maps, hvars, locals, calls, prev>>

\* (mutant) GetDB of a missing name returns no error.
GetReadNoError(t) ==
    /\ pc[t] = "get_read"
    /\ db' = [db EXCEPT ![t] = connections[name[t]]]
    /\ exists' = [exists EXCEPT ![t] = connections[name[t]] # NoHandle]
    /\ config' = [config EXCEPT ![t] = configs[name[t]]]
    /\ configExists' = [configExists EXCEPT ![t] = configs[name[t]] # NoConfig]
    /\ Unlock(t)
    /\ IF connections[name[t]] # NoHandle
       THEN Goto(t, "get_probe")
       ELSE Goto(t, "done")
    /\ UNCHANGED <<single, drained, maps, hvars, op, name, cdb, newdb, ret, err,
                   calls, prev>>

\* (mutant) GetDB probes the handle before it unlocks.
GetReadKeepsLock(t) ==
    /\ pc[t] = "get_read"
    /\ db' = [db EXCEPT ![t] = connections[name[t]]]
    /\ exists' = [exists EXCEPT ![t] = connections[name[t]] # NoHandle]
    /\ config' = [config EXCEPT ![t] = configs[name[t]]]
    /\ configExists' = [configExists EXCEPT ![t] = configs[name[t]] # NoConfig]
    /\ IF connections[name[t]] # NoHandle
       THEN Goto(t, "get_probe") /\ UNCHANGED <<err, mutex, snap>>
       ELSE Goto(t, "done") /\ err' = [err EXCEPT ![t] = ErrNotFound] /\ Unlock(t)
    /\ UNCHANGED <<single, drained, maps, hvars, op, name, cdb, newdb, ret, calls,
                   prev>>

GetRead(t) ==
    /\ pc[t] = "get_read"
    /\ db' = [db EXCEPT ![t] = connections[name[t]]]
    /\ exists' = [exists EXCEPT ![t] = connections[name[t]] # NoHandle]
    /\ config' = [config EXCEPT ![t] = configs[name[t]]]
    /\ configExists' = [configExists EXCEPT ![t] = configs[name[t]] # NoConfig]
    /\ Unlock(t)
    /\ IF connections[name[t]] # NoHandle
       THEN Goto(t, "get_probe") /\ UNCHANGED err
       ELSE Goto(t, "done") /\ err' = [err EXCEPT ![t] = ErrNotFound]
    /\ UNCHANGED <<single, drained, maps, hvars, op, name, cdb, newdb, ret,
                   calls, prev>>

GetHealthy(t) ==
    /\ pc[t] = "get_probe"
    /\ PingOk(db[t])
    /\ pinged' = pinged \cup {db[t]}
    /\ ret' = [ret EXCEPT ![t] = db[t]]
    /\ err' = [err EXCEPT ![t] = ErrNil]
    /\ Goto(t, "done")
    /\ UNCHANGED <<single, drained, maps, mutex, hstate, storedAs, op, name,
                   config, db, exists, configExists, cdb, newdb, snap, calls,
                   prev>>

\* db.DB() fails, or Ping() does.
GetUnhealthy(t) ==
    /\ pc[t] = "get_probe"
    /\ IF ~configExists[t]
       THEN Goto(t, "done") /\ err' = [err EXCEPT ![t] = ErrNoConfig]
       ELSE Goto(t, "close_lock") /\ UNCHANGED err
    /\ UNCHANGED <<single, drained, maps, mutex, hvars, op, name, config, db,
                   exists, configExists, cdb, newdb, ret, snap, calls, prev>>

\* ------------------------------------------------------------ reconnect
RecLock(t) ==
    /\ pc[t] = "rec_lock"
    /\ Lock(t)
    /\ Goto(t, "rec_read")
    /\ UNCHANGED <<single, drained, maps, hvars, locals, calls, prev>>

\* (mutant) reconnect returns the handle GetDB probed.
RecReturnStale(t) ==
    /\ pc[t] = "rec_read"
    /\ ret' = [ret EXCEPT ![t] = db[t]]
    /\ err' = [err EXCEPT ![t] = ErrNil]
    /\ Unlock(t)
    /\ Goto(t, "done")
    /\ UNCHANGED <<single, drained, maps, hvars, op, name, config, db, exists,
                   configExists, cdb, newdb, calls, prev>>

\* (mutant) reconnect returns without the deferred Unlock.
RecReturnKeepsLock(t) ==
    /\ pc[t] = "rec_read"
    /\ ret' = [ret EXCEPT ![t] = connections[name[t]]]
    /\ err' = [err EXCEPT ![t] = ErrNil]
    /\ Goto(t, "done")
    /\ UNCHANGED <<single, drained, maps, mutex, snap, hvars, op, name, config,
                   db, exists, configExists, cdb, newdb, calls, prev>>

RecReturn(t) ==
    /\ pc[t] = "rec_read"
    /\ ret' = [ret EXCEPT ![t] = connections[name[t]]]
    /\ err' = [err EXCEPT ![t] = ErrNil]
    /\ Unlock(t)
    /\ Goto(t, "done")
    /\ UNCHANGED <<single, drained, maps, hvars, op, name, config, db, exists,
                   configExists, cdb, newdb, calls, prev>>

\* ------------------------------------------------------ CloseConnection
\* Lock, and the check that the name is a key.
CloseLock(t) ==
    /\ pc[t] = "close_lock"
    /\ Lock(t)
    /\ cdb' = [cdb EXCEPT ![t] = connections[name[t]]]
    /\ IF op[t] = "Close"
       THEN exists' = [exists EXCEPT ![t] = connections[name[t]] # NoHandle]
       ELSE UNCHANGED exists
    /\ IF connections[name[t]] # NoHandle
       THEN Goto(t, "close_close") /\ UNCHANGED err
       ELSE Goto(t, "close_unlock") /\ err' = [err EXCEPT ![t] = ErrNotFound]
    /\ UNCHANGED <<single, drained, maps, hvars, op, name, config, db,
                   configExists, newdb, ret, calls, prev>>

\* (mutant) CloseConnection drops the entry although DB() failed.
ClosePoolFailsRemoves(t) ==
    /\ pc[t] = "close_close"
    /\ err' = [err EXCEPT ![t] = ErrPool]
    /\ connections' = [connections EXCEPT ![name[t]] = NoHandle]
    /\ configs' = [configs EXCEPT ![name[t]] = NoConfig]
    /\ Goto(t, "close_unlock")
    /\ UNCHANGED <<single, drained, mutex, hvars, op, name, config, db, exists,
                   configExists, cdb, newdb, ret, snap, calls, prev>>

\* db.DB() fails.
ClosePoolFails(t) ==
    /\ pc[t] = "close_close"
    /\ err' = [err EXCEPT ![t] = ErrPool]
    /\ Goto(t, "close_unlock")
    /\ UNCHANGED <<single, drained, maps, mutex, hvars, op, name, config, db,
                   exists, configExists, cdb, newdb, ret, snap, calls, prev>>

\* (mutant) CloseConnection drops the entry although Close() failed.
CloseFailsRemoves(t) ==
    /\ pc[t] = "close_close"
    /\ hstate[cdb[t]] # "closed"
    /\ err' = [err EXCEPT ![t] = ErrClose]
    /\ connections' = [connections EXCEPT ![name[t]] = NoHandle]
    /\ configs' = [configs EXCEPT ![name[t]] = NoConfig]
    /\ Goto(t, "close_unlock")
    /\ UNCHANGED <<single, drained, mutex, hvars, op, name, config, db, exists,
                   configExists, cdb, newdb, ret, snap, calls, prev>>

\* sqlDB.Close() fails: the pooled client stays as it is.
CloseFails(t) ==
    /\ pc[t] = "close_close"
    /\ hstate[cdb[t]] # "closed"
    /\ err' = [err EXCEPT ![t] = ErrClose]
    /\ Goto(t, "close_unlock")
    /\ UNCHANGED <<single, drained, maps, mutex, hvars, op, name, config, db,
                   exists, configExists, cdb, newdb, ret, snap, calls, prev>>

\* sqlDB.Close() succeeds, and the name leaves connections.
CloseDelete(t) ==
    /\ pc[t] = "close_close"
    /\ hstate' = [hstate EXCEPT ![cdb[t]] = "closed"]
    /\ connections' = [connections EXCEPT ![name[t]] = NoHandle]
    /\ Goto(t, "close_delete_config")
    /\ UNCHANGED <<single, drained, configs, mutex, pinged, storedAs, locals,
                   snap, calls, prev>>

\* (mutant) CloseConnection leaves the config of the name in configs.
CloseDeleteConfigKeeps(t) ==
    /\ pc[t] = "close_delete_config"
    /\ err' = [err EXCEPT ![t] = ErrNil]
    /\ Goto(t, "close_unlock")
    /\ UNCHANGED <<single, drained, maps, mutex, hvars, op, name, config, db,
                   exists, configExists, cdb, newdb, ret, snap, calls, prev>>

CloseDeleteConfig(t) ==
    /\ pc[t] = "close_delete_config"
    /\ configs' = [configs EXCEPT ![name[t]] = NoConfig]
    /\ err' = [err EXCEPT ![t] = ErrNil]
    /\ Goto(t, "close_unlock")
    /\ UNCHANGED <<single, drained, connections, mutex, hvars, op, name, config,
                   db, exists, configExists, cdb, newdb, ret, snap, calls, prev>>

\* The deferred Unlock; the call returns to its caller, or to reconnect.
CloseUnlock(t) ==
    /\ pc[t] = "close_unlock"
    /\ Unlock(t)
    /\ IF op[t] = "Close"
       THEN Goto(t, "done") /\ UNCHANGED err
       ELSE IF err[t] # ErrNil
            THEN Goto(t, "done") /\ err' = [err EXCEPT ![t] = ErrRemove]
            ELSE Goto(t, "init_lock") /\ UNCHANGED err
    /\ UNCHANGED <<single, drained, maps, hvars, op, name, config, db, exists,
                   configExists, cdb, newdb, ret, calls, prev>>

\* -------------------------------------------------- CloseAllConnections
CloseAllLock(t) ==
    /\ pc[t] = "closeall_lock"
    /\ Lock(t)
    /\ Goto(t, "closeall_loop")
    /\ UNCHANGED <<single, drained, maps, hvars, locals, calls, prev>>

\* (mutant) CloseAllConnections keeps the entries it could not close.
CloseAllLoopKeepsFailed(t) ==
    /\ pc[t] = "closeall_loop"
    /\ \E closed \in SUBSET {connections[n] : n \in Keys(connections, NoHandle)} :
          /\ hstate' = [h \in Handles |->
                           IF h \in closed THEN "closed" ELSE hstate[h]]
          /\ connections' = [n \in Names |->
                           IF connections[n] \in closed THEN NoHandle
                           ELSE connections[n]]
          /\ configs' = [n \in Names |->
                           IF connections[n] \in closed THEN NoConfig
                           ELSE configs[n]]
    /\ Goto(t, "closeall_unlock")
    /\ UNCHANGED <<single, drained, mutex, pinged, storedAs, locals, snap, calls,
                   prev>>

\* The loop over connections, and the two fresh maps. The handles in closed
\* are those whose DB() and Close() both succeed; the others are logged and
\* skipped.
CloseAllLoop(t) ==
    /\ pc[t] = "closeall_loop"
    /\ \E closed \in SUBSET {connections[n] : n \in Keys(connections, NoHandle)} :
          hstate' = [h \in Handles |-> IF h \in closed THEN "closed" ELSE hstate[h]]
    /\ connections' = EmptyConnections
    /\ configs' = EmptyConfigs
    /\ Goto(t, "closeall_unlock")
    /\ UNCHANGED <<single, drained, mutex, pinged, storedAs, locals, snap, calls,
                   prev>>

CloseAllUnlock(t) ==
    /\ pc[t] = "closeall_unlock"
    /\ Unlock(t)
    /\ Goto(t, "done")
    /\ drained' = \A u \in Threads : op[u] # "Init"
    /\ UNCHANGED <<single, maps, hvars, locals, calls, prev>>

\* ---------------------------------------------------- PrintAllExistingDb
\* Lock, and the loop over connections, which prints and changes nothing.
PrintLock(t) ==
    /\ pc[t] = "print_lock"
    /\ Lock(t)
    /\ Goto(t, "print_unlock")
    /\ UNCHANGED <<single, drained, maps, hvars, locals, calls, prev>>

PrintUnlock(t) ==
    /\ pc[t] = "print_unlock"
    /\ Unlock(t)
    /\ Goto(t, "done")
    /\ UNCHANGED <<single, drained, maps, hvars, locals, calls, prev>>

\* ----------------------------------------------------------- GetDbConfig
\* f.configs[conName]: a name that is no key reads as the zero DBConfig.
ConfigAt(n) == IF configs[n] = NoConfig THEN ZeroConfig ELSE configs[n]

\* Lock, and the read of configs into the local config.
CfgLock(t) ==
    /\ pc[t] = "cfg_lock"
    /\ Lock(t)
    /\ config' = [config EXCEPT ![t] = ConfigAt(name[t])]
    /\ Goto(t, "cfg_unlock")
    /\ UNCHANGED <<single, drained, maps, hvars, op, name, db, exists,
                   configExists, cdb, newdb, ret, err, calls, prev>>

\* The comparison with DBConfig{}, and the deferred Unlock: the call returns
\* DBConfig{} when config equals it, and config otherwise; config holds the
\* returned value.
CfgUnlock(t) ==
    /\ pc[t] = "cfg_unlock"
    /\ Unlock(t)
    /\ config' = [config EXCEPT ![t] =
                     IF config[t] = ZeroConfig THEN ZeroConfig ELSE config[t]]
    /\ Goto(t, "done")
    /\ UNCHANGED <<single, drained, maps, hvars, op, name, db, exists,
                   configExists, cdb, newdb, ret, err, calls, prev>>

\* ------------------------------------------------------ the environment
\* The connection behind a stored handle is lost: its pings fail from now on.
Break(h) ==
    /\ hstate[h] = "live"
    /\ \E n \in Names : connections[n] = h
    /\ hstate' = [hstate EXCEPT ![h] = "broken"]
    /\ UNCHANGED <<single, drained, maps, mutex, pinged, storedAs, pc, locals,
                   snap, calls, prev>>

\* A holder of the handle closes its pooled client behind the registry's back.
ExternalClose(h) ==
    /\ hstate[h] \in {"live", "broken"}
    /\ \E n \in Names : connections[n] = h
    /\ hstate' = [hstate EXCEPT ![h] = "closed"]
    /\ UNCHANGED <<single, drained, maps, mutex, pinged, storedAs, pc, locals,
                   snap, calls, prev>>

\* ------------------------------------------------------------ the system
Step(t) ==
    \/ InitLock(t) \/ InitOpenFails(t) \/ InitOpen(t) \/ InitPoolFails(t)
    \/ InitPing(t) \/ InitStore(t) \/ InitStoreConfig(t) \/ InitUnlock(t)
    \/ GetLock(t) \/ GetRead(t) \/ GetHealthy(t) \/ GetUnhealthy(t)
    \/ RecLock(t) \/ RecReturn(t)
    \/ CloseLock(t) \/ CloseFails(t) \/ ClosePoolFails(t) \/ CloseDelete(t)
    \/ CloseDeleteConfig(t) \/ CloseUnlock(t)
    \/ CloseAllLock(t) \/ CloseAllLoop(t) \/ CloseAllUnlock(t)
    \/ PrintLock(t) \/ PrintUnlock(t) \/ CfgLock(t) \/ CfgUnlock(t)

Env == \E h \in Handles : Break(h) \/ ExternalClose(h)

Next ==
    \/ \E t \in Threads :
          CallInit(t) \/ CallGetDB(t) \/ CallClose(t) \/ CallCloseAll(t)
    \/ \E t \in Threads : CallPrint(t) \/ CallGetDbConfig(t)
    \/ \E t \in Threads : Step(t)
    \/ \E t \in Threads : Return(t)
    \/ Env

Spec == Init /\ [][Next]_vars

\* Sequential runs: a call starts only when no other call is in progress, and
\* prev remembers the call that returned last.
Quiet == \A t \in Threads : pc[t] = "idle"

ReturnSeq(t) ==
    /\ Forget(t)
    /\ prev' = [op |-> op[t], name |-> name[t], config |-> config[t],
                ret |-> ret[t], err |-> err[t],
                db |-> db[t], cdb |-> cdb[t], newdb |-> newdb[t]]

NextSeq ==
    \/ \E t \in Threads :
          Quiet /\ (CallInit(t) \/ CallGetDB(t) \/ CallClose(t) \/ CallCloseAll(t))
    \/ \E t \in Threads : Quiet /\ (CallPrint(t) \/ CallGetDbConfig(t))
    \/ \E t \in Threads : Step(t)
    \/ \E t \in Threads : ReturnSeq(t)
    \/ Env

SpecSeq == Init /\ [][NextSeq]_vars

\* Concurrent initializes against a reachable database: the only calls are
\* InitDataSourceConnection, and gorm.Open, DB() and Ping() succeed.
NextInitOnly ==
    \/ \E t \in Threads : CallInit(t)
    \/ \E t \in Threads : InitLock(t)
    \/ \E t \in Threads : InitOpen(t) /\ hstate'[newdb'[t]] = "live"
    \/ \E t \in Threads : InitPing(t)
    \/ \E t \in Threads : InitStore(t)
    \/ \E t \in Threads : InitStoreConfig(t)
    \/ \E t \in Threads : InitUnlock(t)
    \/ \E t \in Threads : Return(t)

SpecInitOnly == Init /\ [][NextInitOnly]_vars

\* The first calls of GetMySqlConnection, from the start of the program.
NextOnce ==
    \/ \E t \in Threads : CallGetMySqlConnection(t)
    \/ \E t \in Threads : OnceDo(t) \/ OnceNew(t) \/ OnceDone(t) \/ OnceReturn(t)
    \/ \E t \in Threads : OnceMakeConnections(t) \/ OnceMakeConfigs(t) \/ OnceStore(t)
    \/ \E t \in Threads : Return(t)

SpecOnce == InitOnce /\ [][NextOnce]_vars

\* Fair runs: a goroutine that can take a step takes one (every external call
\* returns), and a goroutine waiting for the mutex gets it if the mutex is
\* free again and again. The callers contend for one name with one config.
Acquire(t) ==
    \/ InitLock(t) \/ GetLock(t) \/ RecLock(t) \/ CloseLock(t)
    \/ CloseAllLock(t) \/ PrintLock(t) \/ CfgLock(t)

Fairness ==
    \A t \in Threads : WF_vars(Step(t)) /\ SF_vars(Acquire(t))

OneName(t) == name'[t] \in {"a", NoName} /\ config'[t] \in {"c1", NoConfig}

NextLive ==
    \/ \E t \in Threads : CallInit(t) /\ OneName(t)
    \/ \E t \in Threads : CallGetDB(t) /\ OneName(t)
    \/ \E t \in Threads : CallClose(t) /\ OneName(t)
    \/ \E t \in Threads : CallGetDbConfig(t) /\ OneName(t)
    \/ \E t \in Threads : CallCloseAll(t) \/ CallPrint(t)
    \/ \E t \in Threads : Step(t)
    \/ \E t \in Threads : Return(t)
    \/ Env

SpecLive == Init /\ [][NextLive]_vars /\ Fairness

\* ---------------------------------------------------------------- claims
Done(t, o) == pc[t] = "done" /\ op[t] = o

\* A GetDB call that has returned after running reconnect: its CloseConnection
\* found a handle to close, or found none and failed.
Reconnected(t) ==
    /\ Done(t, "GetDB")
    /\ cdb[t] # NoHandle \/ err[t] = ErrRemove

\* A reconnect whose re-initialization opened a handle and pinged it, which it
\* does only after its CloseConnection has succeeded.
Reinitialized(t) ==
    /\ Reconnected(t)
    /\ newdb[t] # NoHandle
    /\ newdb[t] \in pinged

\* The call before this one was a GetDB of the same name that reconnected and
\* returned a handle.
AfterReconnect(t) ==
    /\ Done(t, "GetDB")
    /\ prev.op = "GetDB"
    /\ prev.name = name[t]
    /\ prev.cdb # NoHandle
    /\ prev.err = ErrNil

Open(h) == hstate[h] \in {"live", "broken"}

\* C1: every GetDB returns either a non-nil handle that passed a liveness probe
\* with a nil error, or a nil handle with a non-nil error; never a nil handle
\* with a nil error.
C1_GetDBResult ==
    \A t \in Threads :
        Done(t, "GetDB") =>
            \/ err[t] = ErrNil /\ ret[t] # NoHandle /\ ret[t] \in pinged
            \/ err[t] # ErrNil /\ ret[t] = NoHandle

\* C2 as stated: a GetDB that finds its handle invalidated, with the database
\* reachable and nothing running concurrently, returns a nil error and a new,
\* probed handle stored under the name; a further GetDB returns that handle.
C2_SelfHealingAsStated ==
    /\ \A t \in Threads :
          Reconnected(t) /\ hstate[db[t]] # "live" /\ err[t] # ErrReconnect =>
              /\ err[t] = ErrNil
              /\ ret[t] # NoHandle /\ ret[t] \in pinged /\ ret[t] # db[t]
              /\ connections[name[t]] = ret[t]
    /\ \A t \in Threads :
          AfterReconnect(t) => err[t] = ErrNil /\ ret[t] = prev.ret

\* C2, amended: in a sequential run, a GetDB whose reconnect succeeds in both
\* steps (CloseConnection, then open, DB() and ping) returns a nil error and
\* the new handle, which differs from the invalidated one and is stored under
\* the name with the config unchanged; a further GetDB finds that same handle
\* stored, and returns it without reconnecting whenever its probe succeeds.
C2_SelfHealing ==
    /\ \A t \in Threads :
          Reinitialized(t) =>
              /\ err[t] = ErrNil
              /\ ret[t] = newdb[t] /\ ret[t] # db[t]
              /\ connections[name[t]] = ret[t]
              /\ configs[name[t]] = config[t]
    /\ \A t \in Threads :
          AfterReconnect(t) =>
              /\ exists[t] /\ db[t] = prev.ret
              /\ ~Reconnected(t) => err[t] = ErrNil /\ ret[t] = prev.ret

\* A handle was closed behind the registry's back, a GetDB replaced it, and the
\* next GetDB returned the replacement.
C2_Witness ==
    \E t \in Threads :
        /\ AfterReconnect(t)
        /\ hstate[prev.db] = "closed" /\ prev.ret # prev.db
        /\ ~Reconnected(t) /\ ret[t] = prev.ret

\* Init on a name that was a key when the call took the mutex.
Duplicate(t) == snap[t].c[name[t]] # NoHandle

\* C3: InitDataSourceConnection on a name that is already a key returns nil,
\* opens no handle and leaves the handle and the config stored for the name
\* (and both maps) as they were; the GetDB that follows finds the name and,
\* when it returns no error, returns a handle that passed a probe.
C3_IdempotentInit ==
    /\ \A t \in Threads :
          pc[t] = "init_unlock" /\ op[t] = "Init" /\ Duplicate(t) =>
              /\ err[t] = ErrNil
              /\ newdb[t] = NoHandle
              /\ connections = snap[t].c /\ configs = snap[t].g
    /\ \A t \in Threads :
          (/\ Done(t, "GetDB")
           /\ prev.op = "Init" /\ prev.name = name[t]
           /\ prev.err = ErrNil /\ prev.newdb = NoHandle) =>
              /\ exists[t]
              /\ err[t] \in {ErrNil, ErrRemove, ErrReconnect}
              /\ err[t] = ErrNil => ret[t] # NoHandle /\ ret[t] \in pinged

\* A second Init of a name has returned, and the GetDB after it has returned
\* the stored handle.
C3_Witness ==
    \E t \in Threads :
        /\ Done(t, "GetDB")
        /\ prev.op = "Init" /\ prev.name = name[t]
        /\ prev.err = ErrNil /\ prev.newdb = NoHandle
        /\ err[t] = ErrNil /\ ret[t] = connections[name[t]] /\ ret[t] # NoHandle

\* C4: concurrent Inits of one name against a reachable database all return
\* nil, one handle is opened and stored for the name however many calls are
\* made, and between the check and the store of the call that opens it no
\* other call has stored the name.
C4_ConcurrentInit ==
    /\ \A t \in Threads :
          pc[t] = "done" => err[t] = ErrNil /\ connections[name[t]] # NoHandle
    /\ \A n \in Names : Cardinality({h \in Handles : storedAs[h] = n}) <= 1
    /\ \A t \in Threads :
          pc[t] \in {"init_open", "init_ping", "init_store"} =>
              connections[name[t]] = NoHandle
    /\ (\A t \in Threads : pc[t] \in {"idle", "done"}) =>
          Cardinality({h \in Handles : hstate[h] # "unopened"})
              = Cardinality(Keys(connections, NoHandle))

\* Two threads have both returned from Init of the same name, one of which
\* opened the handle.
C4_Witness ==
    \E t, u \in Threads :
        /\ t # u /\ Done(t, "Init") /\ Done(u, "Init") /\ name[t] = name[u]
        /\ newdb[t] # NoHandle /\ newdb[u] = NoHandle
        /\ connections[name[t]] = newdb[t]

\* C5: whenever no operation holds the mutex, connections and configs have
\* the same keys.
C5_LockStep ==
    mutex = NoThread => Keys(connections, NoHandle) = Keys(configs, NoConfig)

\* The mutex is free, a name is stored, a handle has been closed and removed,
\* and a call has failed.
C5_Witness ==
    /\ mutex = NoThread
    /\ \E n \in Names : connections[n] # NoHandle
    /\ \E h \in Handles : storedAs[h] # NoName /\ hstate[h] = "closed"
                            /\ \A n \in Names : connections[n] # h
    /\ \E t \in Threads : pc[t] = "done" /\ err[t] # ErrNil

\* C6: for each name, at most one handle that is or was stored under it is
\* still open, so a handle is stored under a name only when every handle
\* stored under it before has been closed.
C6_AtMostOneOpen ==
    \A n \in Names : Cardinality({h \in Handles : storedAs[h] = n /\ Open(h)}) <= 1

\* C7: an Init of a name that is no key, which gets no pinged handle (open
\* fails, DB() fails or the ping fails), returns one of the three errors with
\* both maps as they were when it took the mutex, and no entry for the name.
C7_FailedInit ==
    \A t \in Threads :
        (/\ pc[t] = "init_unlock" /\ ~Duplicate(t)
         /\ newdb[t] = NoHandle \/ newdb[t] \notin pinged) =>
            /\ err[t] \in {ErrOpen, ErrPool, ErrPing}
            /\ connections = snap[t].c /\ configs = snap[t].g
            /\ connections[name[t]] = NoHandle /\ configs[name[t]] = NoConfig

\* An Init whose ping failed is about to return, while another name is stored.
C7_Witness ==
    \E t \in Threads :
        /\ pc[t] = "init_unlock" /\ op[t] = "Init" /\ err[t] = ErrPing
        /\ \E n \in Names : n # name[t] /\ connections[n] # NoHandle

C8_Returns ==
    \A t \in Threads :
        /\ Done(t, "GetDB") /\ ~exists[t] =>
              ret[t] = NoHandle /\ err[t] = ErrNotFound
        /\ pc[t] = "close_unlock" /\ op[t] = "Close" /\ ~exists[t] =>
              /\ err[t] = ErrNotFound
              /\ connections = snap[t].c /\ configs = snap[t].g

C8_GetLeavesMaps ==
    \A t \in Threads :
        (/\ op[t] = "GetDB" /\ pc[t] \in {"get_lock", "get_read"}
         /\ pc'[t] # pc[t]
         /\ connections[name[t]] = NoHandle) => UNCHANGED maps

\* C8: for a name that is no key of connections, GetDB returns a nil handle
\* and the not-found error, CloseConnection returns the not-found error, and
\* neither call changes connections or configs.
C8_NotFound == []C8_Returns /\ [][C8_GetLeavesMaps]_vars

\* A GetDB and a CloseConnection of a name that is no key have both found
\* nothing, while another name is stored.
C8_Witness ==
    \E t, u \in Threads :
        /\ Done(t, "GetDB") /\ ~exists[t] /\ err[t] = ErrNotFound
        /\ pc[u] = "close_unlock" /\ op[u] = "Close" /\ ~exists[u]
        /\ \E n \in Names : connections[n] # NoHandle

\* C9: when CloseAllConnections returns, connections and configs are empty
\* whatever the outcome of the individual closes, and the GetDB that follows
\* returns a nil handle and the not-found error for any name.
C9_CloseAllDrains ==
    /\ \A t \in Threads :
          pc[t] = "closeall_unlock" \/ Done(t, "CloseAll") =>
              connections = EmptyConnections /\ configs = EmptyConfigs
    /\ \A t \in Threads :
          Done(t, "GetDB") /\ prev.op = "CloseAll" =>
              ~exists[t] /\ ret[t] = NoHandle /\ err[t] = ErrNotFound

\* A GetDB after CloseAllConnections has returned not-found for a name whose
\* handle CloseAllConnections failed to close.
C9_Witness ==
    \E t \in Threads :
        /\ Done(t, "GetDB") /\ prev.op = "CloseAll" /\ err[t] = ErrNotFound
        /\ \E h \in Handles : storedAs[h] = name[t] /\ Open(h)

\* A GetDB that has returned from a reconnect whose CloseConnection removed
\* the entry and whose re-initialization got no pinged handle (sequential runs).
ReinitFailed(t) ==
    /\ Reconnected(t)
    /\ connections[name[t]] # cdb[t]
    /\ newdb[t] = NoHandle \/ newdb[t] \notin pinged

AfterReinitFailed(t) ==
    /\ pc[t] = "done"
    /\ prev.op = "GetDB" /\ prev.err = ErrReconnect /\ prev.name = name[t]

\* C10: in a sequential run, a GetDB whose reconnect closes the entry and then
\* fails to re-initialize returns a nil handle and the wrapped reconnect
\* error, and the name is a key of neither map; the GetDB of that name that
\* follows returns not-found, and the Init that follows attempts an open.
C10_ReinitFails ==
    /\ \A t \in Threads :
          ReinitFailed(t) =>
              /\ ret[t] = NoHandle /\ err[t] = ErrReconnect
              /\ connections[name[t]] = NoHandle /\ configs[name[t]] = NoConfig
    /\ \A t \in Threads :
          AfterReinitFailed(t) /\ op[t] = "GetDB" =>
              ret[t] = NoHandle /\ err[t] = ErrNotFound
    /\ \A t \in Threads :
          AfterReinitFailed(t) /\ op[t] = "Init" =>
              err[t] = ErrOpen \/ newdb[t] # NoHandle

\* After a GetDB whose re-initialization failed, an Init of the same name has
\* opened and stored a new handle.
C10_Witness ==
    \E t \in Threads :
        /\ AfterReinitFailed(t) /\ op[t] = "Init"
        /\ err[t] = ErrNil /\ connections[name[t]] = newdb[t] /\ newdb[t] # NoHandle

\* The CloseConnection that reconnect calls is about to return an error.
CloseStepFailed(t) ==
    pc[t] = "close_unlock" /\ op[t] = "GetDB" /\ err[t] # ErrNil

C12_CloseFailureKeeps ==
    \A t \in Threads :
        pc[t] = "close_unlock" /\ cdb[t] # NoHandle =>
            /\ err[t] \in {ErrPool, ErrClose, ErrNil}
            /\ err[t] # ErrNil =>
                  /\ connections = snap[t].c /\ configs = snap[t].g
                  /\ connections[name[t]] = cdb[t]
                  /\ configs[name[t]] # NoConfig
            /\ err[t] = ErrNil =>
                  /\ hstate[cdb[t]] = "closed"
                  /\ connections = [snap[t].c EXCEPT ![name[t]] = NoHandle]
                  /\ configs = [snap[t].g EXCEPT ![name[t]] = NoConfig]
            /\ (connections # snap[t].c \/ configs # snap[t].g) => err[t] = ErrNil

\* A CloseConnection called on a registered name is about to return the DB()
\* error with the name still stored, after another CloseConnection deleted
\* another name.
C12_Witness ==
    \E t \in Threads :
        /\ pc[t] = "close_unlock" /\ op[t] = "Close" /\ err[t] = ErrPool
        /\ connections[name[t]] = cdb[t] /\ cdb[t] # NoHandle
        /\ \E h \in Handles : storedAs[h] \notin {NoName, name[t]}
                                /\ hstate[h] = "closed"
                                /\ connections[storedAs[h]] = NoHandle

\* A GetDbConfig that has returned, the call before it being an Init of the
\* same name that returned nil.
AfterInit(t) ==
    /\ Done(t, "GetDbConfig")
    /\ prev.op = "Init" /\ prev.name = name[t] /\ prev.err = ErrNil

\* No handle was ever stored under the name of the call.
NeverInitialized(t) == \A h \in Handles : storedAs[h] # name[t]

\* The call before this one removed the name of the call.
AfterClose(t) ==
    \/ prev.op = "Close" /\ prev.name = name[t] /\ prev.err = ErrNil
    \/ prev.op = "CloseAll"

C13_LeavesMaps ==
    \A t \in Threads :
        pc[t] = "cfg_unlock" => connections = snap[t].c /\ configs = snap[t].g

C13_Sentinel ==
    \A t \in Threads :
        Done(t, "GetDbConfig") /\ (NeverInitialized(t) \/ AfterClose(t)) =>
            config[t] = ZeroConfig

\* C13 as stated: after any InitDataSourceConnection(name, cfg) that returned
\* nil, GetDbConfig(name) returns cfg; for a name never initialized or closed
\* it returns DBConfig{}; it changes neither map.
C13_RoundTripAsStated ==
    /\ \A t \in Threads : AfterInit(t) => config[t] = prev.config
    /\ C13_Sentinel
    /\ C13_LeavesMaps

\* C13, amended: in a sequential run, after an InitDataSourceConnection(name,
\* cfg) that returned nil having stored the name, GetDbConfig(name) returns
\* cfg; after one that returned nil because the name was already a key, it
\* returns the config stored for the name before, whatever cfg is; for a name
\* never initialized or just closed it returns DBConfig{}; it changes neither
\* map.
C13_RoundTrip ==
    /\ \A t \in Threads :
          AfterInit(t) /\ prev.newdb # NoHandle => config[t] = prev.config
    /\ \A t \in Threads :
          AfterInit(t) /\ prev.newdb = NoHandle =>
              configs[name[t]] # NoConfig /\ config[t] = configs[name[t]]
    /\ C13_Sentinel
    /\ C13_LeavesMaps

\* Init stored a name with a config that is not DBConfig{}, a second Init of
\* the name with another config returned nil, and GetDbConfig returned the
\* first config.
C13_Witness ==
    \E t \in Threads :
        /\ AfterInit(t) /\ prev.newdb = NoHandle
        /\ prev.config # config[t] /\ config[t] # ZeroConfig
        /\ configs[name[t]] = config[t]

\* C14: however the first calls of GetMySqlConnection interleave, one
\* MySqlConnection is constructed, every call that has returned has returned
\* that one object, and the object a caller holds has both maps made.
C14_CreateOnce ==
    /\ Len(objects) <= 1
    /\ \A t \in Threads :
          Done(t, "GetMySqlConnection") \/ got[t] # NoInstance =>
              /\ Len(objects) = 1
              /\ got[t] = 1 /\ got[t] = instance
              /\ objects[got[t]] = Constructed
    /\ \A t, u \in Threads :
          got[t] # NoInstance /\ got[u] # NoInstance => got[t] = got[u]

\* Every goroutine holds the instance, one of them from an earlier call and
\* one from a call that has just returned.
C14_Witness ==
    /\ \A t \in Threads : got[t] = 1
    /\ \E t, u \in Threads : Done(t, "GetMySqlConnection") /\ pc[u] = "idle"

\* The places of a call between its Lock and its Unlock.
Critical ==
    {"init_open", "init_ping", "init_store", "init_store_config", "init_unlock",
     "get_read", "rec_read",
     "close_close", "close_delete_config", "close_unlock",
     "closeall_loop", "closeall_unlock", "print_unlock", "cfg_unlock"}

\* The places from which the next step of a call reads or writes a map.
Accessing ==
    {"init_store", "init_store_config", "get_read", "rec_read",
     "close_delete_config", "closeall_loop"}

\* The places at which a call takes the mutex and reads a map in one step.
Acquiring == {"init_lock", "close_lock", "cfg_lock", "print_lock"}

C15_OneHolder ==
    /\ \A t, u \in Threads :
          pc[t] \in Critical /\ pc[u] \in Critical => t = u
    /\ \A t \in Threads : pc[t] \in Critical <=> mutex = t
    /\ \A t \in Threads : pc[t] \in Accessing => mutex = t

C15_AccessByHolder ==
    /\ maps' # maps =>
          \E t \in Threads : mutex = t /\ mutex' = t /\ pc'[t] # pc[t]
    /\ \A t \in Threads :
          pc[t] \in Acquiring /\ pc'[t] # pc[t] => mutex = NoThread /\ mutex' = t

\* C15: at most one goroutine is between a Lock and its Unlock, it is the one
\* recorded as the holder of the mutex, and every step of any operation that
\* reads or writes connections or configs is taken by the holder: a step that
\* changes a map is a step of the goroutine holding the mutex before and after
\* it, and a step that reads a map is taken while holding it or takes it.
C15_MutualExclusion == []C15_OneHolder /\ [][C15_AccessByHolder]_vars

\* One goroutine is inside PrintAllExistingDb holding the mutex while the
\* others wait for it in GetDbConfig, CloseConnection or reconnect.
C15_Witness ==
    \E t \in Threads :
        /\ pc[t] = "print_unlock" /\ mutex = t
        /\ \A u \in Threads \ {t} : pc[u] \in {"cfg_lock", "close_lock", "rec_lock"}
        /\ \E n \in Names : connections[n] # NoHandle

\* C16: the handle that the close step of a reconnect has closed and removed
\* is the handle that this GetDB read and probed, whatever other goroutines
\* stored under the name in between.
C16_ClosesProbed ==
    \A t \in Threads :
        (/\ op[t] = "GetDB" /\ pc[t] = "close_delete_config"
         /\ hstate[db[t]] # "live") => cdb[t] = db[t]

\* C17: when the close step of a reconnect has removed the entry that an Init
\* of another goroutine had stored, handle and config, the config that the
\* reconnect stores for the name is the config of that Init, not the one the
\* GetDB read before the Init ran.
C17_KeepsConfig ==
    \A t, u \in Threads :
        (/\ op[t] = "GetDB" /\ pc[t] = "init_unlock" /\ hstate[db[t]] # "live"
         /\ newdb[t] # NoHandle /\ connections[name[t]] = newdb[t]
         /\ Done(u, "Init") /\ newdb[u] # NoHandle /\ cdb[t] = newdb[u]) =>
            configs[name[t]] = config[u]

\* C18: once CloseAllConnections has returned with no caller's
\* InitDataSourceConnection in progress, and as long as no caller has called
\* InitDataSourceConnection since, connections and configs are empty, whatever
\* GetDB calls were in flight.
C18_StaysDrained ==
    drained => connections = EmptyConnections /\ configs = EmptyConfigs

\* C19: a handle that InitDataSourceConnection has opened is, when the call
\* is about to return, stored under its name or closed.
C19_NoOrphan ==
    \A t \in Threads :
        pc[t] = "init_unlock" /\ newdb[t] # NoHandle =>
            connections[name[t]] = newdb[t] \/ hstate[newdb[t]] = "closed"

\* C20: a GetDB that is waiting on its probe has read the handle and the
\* config of its name and does not hold the mutex, which is then free or held
\* by another goroutine inside its own critical section.
C20_ProbeOutsideLock ==
    \A t \in Threads :
        pc[t] = "get_probe" =>
            /\ mutex # t
            /\ exists[t] /\ db[t] # NoHandle
            /\ mutex = NoThread \/ \E u \in Threads \ {t} :
                                      mutex = u /\ pc[u] \in Critical

\* While a GetDB waits on its probe of the handle it read, the mutex is free
\* and an Init of another goroutine has returned after storing another handle
\* under the same name: the read handle was removed and the Init took the
\* mutex, stored and released it, all during the probe.
C20_Witness ==
    \E t, u \in Threads :
        /\ pc[t] = "get_probe" /\ mutex = NoThread
        /\ Done(u, "Init") /\ name[u] = name[t] /\ err[u] = ErrNil
        /\ newdb[u] # NoHandle /\ connections[name[t]] = newdb[u]
        /\ db[t] # newdb[u]

\* The places at which a call is about to take the mutex.
Waiting ==
    {"init_lock", "get_lock", "rec_lock", "close_lock", "closeall_lock",
     "print_lock", "cfg_lock"}

C21_Safe ==
    \A t \in Threads :
        /\ pc[t] \in {"idle", "done"} => mutex # t
        /\ pc[t] \in Waiting => mutex # t

\* C21: with external calls that return and a mutex granted fairly, every
\* call of InitDataSourceConnection, GetDB, CloseConnection,
\* CloseAllConnections, PrintAllExistingDb and GetDbConfig eventually returns;
\* a call that has returned does not hold the mutex, and no goroutine is about
\* to take the mutex while it holds it, reconnect's CloseConnection and
\* InitDataSourceConnection included.
C21_Terminates ==
    /\ []C21_Safe
    /\ \A t \in Threads : (pc[t] # "idle") ~> (pc[t] = "done")

\* A GetDB has returned the handle its reconnect stored, having taken the
\* mutex four times, while the other goroutine has returned from a call too
\* and the mutex is free.
C21_Witness ==
    \E t, u \in Threads :
        /\ t # u /\ mutex = NoThread
        /\ Reinitialized(t) /\ err[t] = ErrNil /\ ret[t] = newdb[t]
        /\ pc[u] = "done" /\ op[u] \in {"CloseAll", "Print", "GetDbConfig", "Close"}

====
